---------------------------- MODULE Spec2Model ----------------------------
(***************************************************************************)
(* RadixNodeConnection (src/src/modules/universe/RadixNodeConnection.ts):  *)
(* one RPC session to one ledger node.  The model holds the connection's   *)
(* bookkeeping tables, the rxjs subjects stored in them, the transports    *)
(* the connection created, the timers it arms and the RPC calls in flight. *)
(* Every handler of the class is one action.                               *)
(***************************************************************************)
EXTENDS Naturals, Integers, Sequences, FiniteSets, TLC

(* ------------------------------ bounds --------------------------------- *)
\* subscriber identifiers one connection may allocate (subscribe + submitAtom)
MaxIds == 2
\* openConnection calls on one connection
MaxOpens == 2
\* unsubscribe calls the caller makes on one connection
MaxUnsubs == 2
\* inbound notifications (of both kinds) the node sends
MaxNotifs == 2
\* atoms in one notification batch
MaxBatch == 2
\* liveness probes that are sent
MaxPings == 1
\* unsubscribeAll calls on one connection
MaxUnsubAlls == 1

(* ------------------------------ inputs --------------------------------- *)
Addresses == {"a1", "a2"}
\* wire-encoded atoms the node may send in a batch
WireAtoms == {"wA", "wB"}
\* optional message of a submission-state notification
Undefined == "undefined"
\* values of a submission-state notification the switch distinguishes
ProgressValues == {"SUBMITTING", "SUBMITTED"}
FailureValues == {"COLLISION", "ILLEGAL_STATE", "UNSUITABLE_PEER", "VALIDATION_ERROR"}
\* the notifications { value, message? } the node is let send
NodeReports ==
    {<<v, Undefined>> : v \in ProgressValues \cup {"STORED"}}
        \cup {<<v, "bad">> : v \in FailureValues}
        \cup {<<"VALIDATION_ERROR", Undefined>>}

RECURSIVE SeqsUpTo(_, _)
SeqsUpTo(S, n) ==
    IF n = 0 THEN {<<>>}
    ELSE LET shorter == SeqsUpTo(S, n - 1)
         IN  shorter \cup {Append(s, x) : s \in {t \in shorter : Len(t) = n - 1}, x \in S}
Batches == SeqsUpTo(WireAtoms, MaxBatch)

(* ------------------------------ errors --------------------------------- *)
\* An error value is the tuple of the string pieces it is concatenated from.
SocketClosedError == <<"Socket closed">>
SocketTimeoutError == <<"Socket timeout">>
OpenTimeoutError == <<"Timeout">>
\* rejection of call() by the node
RpcError == <<"rpc error">>
\* rejection of call() by a transport that is not ready
NotReadyError == <<"socket not ready">>
TransportError == <<"transport error">>
\* a property of undefined is read (this._socket, this._subscriptions[undefined])
TypeError == <<"TypeError">>
\* next, error or complete on a subject the caller closed with unsubscribe()
ObjectUnsubscribedError == <<"ObjectUnsubscribedError: object unsubscribed">>
\* value + ': ' + message
FailureError(value, message) == <<value, ": ", message>>

(* --------------------------- rxjs subjects ----------------------------- *)
\* The subjects are those of rxjs 6, whose entry point 'rxjs/Rx' line 1 imports.
\* A subject is its rxjs fields and `out`: what the caller's observer, subscribed
\* when the stream was returned, has received.  `observed` is FALSE for a subject
\* no caller holds: the sync status, which the connection keeps until someone
\* asks for it, and the subject of a subscribe or submitAtom call that threw
\* instead of returning it.
NextOf(v) == [k |-> "next", v |-> v]
ErrorOf(e) == [k |-> "error", e |-> e]
CompleteOf == [k |-> "complete"]

\* new Subject<RadixAtomUpdate>()
NewSubject(observed) ==
    [isStopped |-> FALSE, hasError |-> FALSE, thrownError |-> <<>>,
     closed |-> FALSE, observed |-> observed, out |-> <<>>]
\* new BehaviorSubject(v): a subscriber first receives the current value
NewBehaviorSubject(v, observed) ==
    [isStopped |-> FALSE, hasError |-> FALSE, thrownError |-> <<>>,
     closed |-> FALSE, observed |-> observed, value |-> v,
     out |-> IF observed THEN <<NextOf(v)>> ELSE <<>>]

\* the observers are notified until the subject stops; then the list is empty
Deliver(s, x) == IF s.observed /\ ~s.isStopped THEN Append(s.out, x) ELSE s.out

\* next, error and complete throw ObjectUnsubscribedError on a closed subject,
\* before they change anything
Throws(s) == s.closed

\* Subject.next: nothing happens once the subject is stopped; throws if closed
SubjectNext(s, v) == IF Throws(s) THEN s ELSE [s EXCEPT !.out = Deliver(s, NextOf(v))]
\* BehaviorSubject.next: the value is stored, then Subject.next (which may throw)
BehaviorNext(s, v) == SubjectNext([s EXCEPT !.value = v], v)
\* Subject.error (rxjs 6): sets hasError, thrownError and isStopped whether or
\* not the subject is already stopped; throws if closed
SubjectError(s, e) ==
    IF Throws(s) THEN s
    ELSE [s EXCEPT !.hasError = TRUE, !.thrownError = e, !.isStopped = TRUE,
                   !.out = Deliver(s, ErrorOf(e))]
\* Subject.complete; throws if closed
SubjectComplete(s) ==
    IF Throws(s) THEN s
    ELSE [s EXCEPT !.isStopped = TRUE, !.out = Deliver(s, CompleteOf)]
\* Subject.unsubscribe, which the holder of a returned stream may call:
\* isStopped = true, closed = true, the observers are dropped
SubjectUnsubscribe(s) == [s EXCEPT !.isStopped = TRUE, !.closed = TRUE]

\* the terminal outcome a subject reports to a subscriber that arrives now
Outcome(s) ==
    IF s.closed THEN "closed"
    ELSE IF s.hasError THEN "error" ELSE IF s.isStopped THEN "complete" ELSE "active"

(* ------------------------------ state ---------------------------------- *)
VARIABLES
    lastSubscriberId,       \* private lastSubscriberId
    subscriptions,          \* _subscriptions: subscriberId -> Subject
    atomUpdateSubjects,     \* _atomUpdateSubjects: subscriberId -> BehaviorSubject
    addressSubscriptions,   \* _addressSubscriptions: address -> subscriberId
    syncedSubscriptions,    \* _syncedSubscriptions: subscriberId -> BehaviorSubject
    addressKeys,            \* the keys of _addressSubscriptions in insertion order
    pingInterval,           \* this.pingInterval: "unset" | "active" | "cleared"
    leakedIntervals,        \* running intervals whose handle pingInterval no longer holds
    sockets,                \* the Clients created, one per openConnection; _socket is the last
    opens,                  \* one record per openConnection call: its promise and timer
    calls,                  \* subscribe / submit RPC calls: subscriberId -> call record
    timeouts,               \* submitAtom's timer: subscriberId -> "armed" | "cleared" | "fired"
    unsubs,                 \* the cancel calls of unsubscribe that are in flight
    nUnsubs,                \* unsubscribe calls the caller made so far
    unsubAlls,              \* one record per unsubscribeAll call: its Promise.all
    hist,                   \* per submission: the events handled for it, in order
    nNotifs,                \* notifications received so far
    pings,                  \* one record per probe call
    lastOp,                 \* the operation or handler that ran last, with its inputs
    emitted                 \* the subject calls and events that run made, in order

vars == <<lastSubscriberId, subscriptions, atomUpdateSubjects, addressSubscriptions,
          syncedSubscriptions, addressKeys, pingInterval, leakedIntervals, sockets, opens,
          calls, timeouts, unsubs, nUnsubs, unsubAlls, hist, nNotifs, pings, lastOp,
          emitted>>

tables == <<subscriptions, atomUpdateSubjects, addressSubscriptions, syncedSubscriptions,
            addressKeys>>
transport == <<sockets, pingInterval, leakedIntervals, opens>>

(* ------------------------------ helpers -------------------------------- *)
\* this.lastSubscriberId + ''
IdTable == <<"1", "2", "3", "4", "5", "6", "7", "8", "9">>
IdStr(n) == IdTable[n]

Op(op, id, val) ==
    [op |-> op, id |-> id, val |-> val, atoms |-> <<>>, isHead |-> FALSE, threw |-> FALSE,
     msg |-> "", result |-> "", error |-> <<>>]
\* the run threw e
Threw(o, e) == [o EXCEPT !.threw = TRUE, !.error = e]

Range(seq) == {seq[i] : i \in DOMAIN seq}
Last(seq) == seq[Len(seq)]

Delete(f, k) == [x \in DOMAIN f \ {k} |-> f[x]]
Put(f, k, v) == [x \in DOMAIN f \cup {k} |-> IF x = k THEN v ELSE f[x]]

\* the keys of an object in the order for..in visits them (integer keys ascending)
RECURSIVE KeysInOrder(_, _)
KeysInOrder(f, n) ==
    IF n = 0 THEN <<>>
    ELSE LET rest == KeysInOrder(f, n - 1)
         IN  IF IdStr(n) \in DOMAIN f THEN Append(rest, IdStr(n)) ELSE rest
Keys(f) == KeysInOrder(f, Len(IdTable))

\* obj[key] = value keeps the position of a key the object has, and appends a new one
KeysAfterPut(keys, k) == IF k \in Range(keys) THEN keys ELSE Append(keys, k)
\* delete obj[key]
KeysAfterDelete(keys, k) == SelectSeq(keys, LAMBDA x : x # k)

\* RadixSerializer.fromJSON applied to one wire atom
DeserializeAtom(w) == [atom |-> w]
\* RadixSerializer.fromJSON(notification.atoms)
FromJSON(ws) == [i \in DOMAIN ws |-> DeserializeAtom(ws[i])]
\* { action: 'STORE', atom, processedData: {} }
StoreUpdate(atom) == [action |-> "STORE", atom |-> atom, processedData |-> <<>>]

\* this._socket is set: openConnection has created a Client
HasSocket == sockets # <<>>
\* the state of this._socket: "none" | "connecting" | "open" | "closing" | "closed"
sockState == IF HasSocket THEN Last(sockets).state ELSE "none"
\* this._socket.ready
ready == HasSocket /\ Last(sockets).ready

\* isReady()
IsReady == HasSocket /\ ready

\* the connection's lifecycle state
ConnState ==
    IF ready THEN "Open" ELSE IF sockState = "connecting" THEN "Connecting" ELSE "Closed"

\* _socket.close(): a socket that is closing or closed stays as it is
MutSocketAfterCloseNoop(s) == s
SocketAfterClose(s) == IF s \in {"connecting", "open"} THEN "closing" ELSE s
\* this._socket.close() on the sockets the connection created
CloseSocket(ss) ==
    IF ss = <<>> THEN ss ELSE [ss EXCEPT ![Len(ss)].state = SocketAfterClose(@)]

(* ------------------------------- Init ---------------------------------- *)
Init ==
    /\ lastSubscriberId = 1
    /\ subscriptions = <<>>
    /\ atomUpdateSubjects = <<>>
    /\ addressSubscriptions = <<>>
    /\ syncedSubscriptions = <<>>
    /\ addressKeys = <<>>
    /\ pingInterval = "unset"
    /\ leakedIntervals = 0
    /\ sockets = <<>>
    /\ opens = <<>>
    /\ calls = <<>>
    /\ timeouts = <<>>
    /\ unsubs = <<>>
    /\ nUnsubs = 0
    /\ unsubAlls = <<>>
    /\ hist = <<>>
    /\ nNotifs = 0
    /\ pings = <<>>
    /\ lastOp = Op("new", "", "")
    /\ emitted = <<>>

(* --------------------------- emitted entries --------------------------- *)
EmitNextUpdate(id, u) == [on |-> "subscription", id |-> id, m |-> "next", u |-> u]
EmitNextSynced(id, b) == [on |-> "synced", id |-> id, m |-> "next", b |-> b]
EmitNextState(id, v) == [on |-> "atomUpdate", id |-> id, m |-> "next", v |-> v]
EmitError(on, id, e) == [on |-> on, id |-> id, m |-> "error", e |-> e]
EmitComplete(on, id) == [on |-> on, id |-> id, m |-> "complete"]
\* this.emit('open' | 'closed')
EmitEvent(name) == [on |-> "connection", id |-> "", m |-> name]

(* ---------------------------- getSubscriberId -------------------------- *)
\* this.lastSubscriberId++ ; return this.lastSubscriberId + ''
MutGetSubscriberIdReused == IdStr(2)
GetSubscriberId == IdStr(lastSubscriberId + 1)

(* ----------------------------- openConnection -------------------------- *)
\* new Client(address) replaces this._socket whatever it held, with the handlers
\* on the new Client and the 5 s timer; a Client that was replaced lives on
OpenConnection ==
    /\ Len(opens) < MaxOpens
    /\ sockets' = Append(sockets, [state |-> "connecting", ready |-> FALSE, listeners |-> 0])
    /\ opens' = Append(opens, [promise |-> "pending", error |-> <<>>, timer |-> "armed"])
    /\ lastOp' = Op("openConnection", "", "")
    /\ emitted' = <<>>
    /\ UNCHANGED <<lastSubscriberId, tables, pingInterval, leakedIntervals, calls, timeouts,
                   unsubs, nUnsubs, unsubAlls, hist, nNotifs, pings>>

\* reject(e) / resolve() of the promise of the open request that created the socket
Settle(o, outcome, e) ==
    IF o.promise = "pending" THEN [o EXCEPT !.promise = outcome, !.error = e] ELSE o

\* this._socket.on('Atoms.subscribeUpdate', ...) and on('AtomSubmissionState.onNext',
\* ...): one more listener of each on the Client the connection holds now
AddListeners(ss) == [ss EXCEPT ![Len(ss)].listeners = @ + 1]

\* the 'open' event of the Client that open request g created
SocketOpen(g) ==
    /\ g \in DOMAIN sockets
    /\ sockets[g].state = "connecting"
    /\ sockets' = AddListeners([sockets EXCEPT ![g].state = "open", ![g].ready = TRUE])
    /\ pingInterval' = "active"
    /\ leakedIntervals' = IF pingInterval = "active" THEN leakedIntervals + 1
                          ELSE leakedIntervals
    /\ opens' = [opens EXCEPT ![g] = Settle(@, "resolved", <<>>)]
    /\ lastOp' = Op("socket.open", IdStr(g), "")
    /\ emitted' = <<EmitEvent("open")>>
    /\ UNCHANGED <<lastSubscriberId, tables, calls, timeouts, unsubs, nUnsubs, unsubAlls,
                   hist, nNotifs, pings>>

\* the 'error' event of the Client of open request g before it is ready (the
\* connection attempt failed, or close() aborted it while the request was
\* pending); the transport then closes
SocketError(g) ==
    /\ g \in DOMAIN sockets
    /\ \/ sockets[g].state = "connecting"
       \/ sockets[g].state = "closing" /\ ~sockets[g].ready /\ opens[g].promise = "pending"
    /\ sockets' = [sockets EXCEPT ![g].state = "closing"]
    /\ opens' = [opens EXCEPT ![g] = Settle(@, "rejected", TransportError)]
    /\ lastOp' = Op("socket.error", IdStr(g), "")
    /\ emitted' = <<>>
    /\ UNCHANGED <<lastSubscriberId, tables, pingInterval, leakedIntervals, calls, timeouts,
                   unsubs, nUnsubs, unsubAlls, hist, nNotifs, pings>>

\* the timer of open request g: it reads the socket the connection holds now
OpenTimeout(g) ==
    /\ g \in DOMAIN opens
    /\ opens[g].timer = "armed"
    /\ IF ~ready
       THEN /\ sockets' = CloseSocket(sockets)
            /\ emitted' = <<EmitEvent("closed")>>
            /\ opens' = [opens EXCEPT ![g] = [Settle(@, "rejected", OpenTimeoutError)
                                               EXCEPT !.timer = "fired"]]
       ELSE /\ sockets' = sockets
            /\ emitted' = <<>>
            /\ opens' = [opens EXCEPT ![g].timer = "fired"]
    /\ lastOp' = Op("openTimeout", IdStr(g), "")
    /\ UNCHANGED <<lastSubscriberId, tables, pingInterval, leakedIntervals, calls, timeouts,
                   unsubs, nUnsubs, unsubAlls, hist, nNotifs, pings>>

(* --------------------------------- ping -------------------------------- *)
\* the interval's callback: if (this.isReady()) this._socket.call('Network.getInfo')
NewPing == [state |-> "pending", session |-> Len(sockets)]
MutPingAnytime ==
    /\ HasSocket
    /\ Len(pings) < MaxPings
    /\ pings' = Append(pings, NewPing)
    /\ lastOp' = Op("ping", "", "called")
    /\ emitted' = <<>>
    /\ UNCHANGED <<lastSubscriberId, tables, transport, calls, timeouts, unsubs, nUnsubs,
                   unsubAlls, hist, nNotifs>>
Ping ==
    /\ pingInterval = "active" \/ leakedIntervals > 0
    /\ Len(pings) < MaxPings
    /\ pings' = IF IsReady THEN Append(pings, NewPing) ELSE pings
    /\ lastOp' = Op("ping", "", IF IsReady THEN "called" ELSE "skipped")
    /\ emitted' = <<>>
    /\ UNCHANGED <<lastSubscriberId, tables, transport, calls, timeouts, unsubs, nUnsubs,
                   unsubAlls, hist, nNotifs>>

\* the probe's reply or failure: logged only
PingResult(i, ok) ==
    /\ i \in DOMAIN pings
    /\ pings[i].state = "pending"
    /\ IF ok THEN sockets[pings[i].session].ready ELSE TRUE
    /\ pings' = [pings EXCEPT ![i].state = IF ok THEN "ok" ELSE "failed"]
    /\ lastOp' = Op("pingResult", "", IF ok THEN "ok" ELSE "failed")
    /\ emitted' = <<>>
    /\ UNCHANGED <<lastSubscriberId, tables, transport, calls, timeouts, unsubs, nUnsubs,
                   unsubAlls, hist, nNotifs>>

(* ------------------------------- subscribe ----------------------------- *)
\* this._socket.call(method, ...): the address in its query (subscribe only), the
\* Client it was made on and whether that Client, being ready, sent it.  Its
\* state is "pending" until one of its callbacks has run, "thrown" (with what was
\* thrown) when its .then callback threw and the chained .catch has not run yet.
NewCall(method, address) ==
    [method |-> method, address |-> address, state |-> "pending",
     session |-> Len(sockets), sent |-> ready, thrown |-> <<>>]

\* subscribe(address): the tables are written before this._socket is read, so
\* with no Client yet the entries stay and the call throws: the subject is
\* returned to nobody
Subscribe(address) ==
    /\ lastSubscriberId - 1 < MaxIds
    /\ LET subscriberId == GetSubscriberId
       IN  /\ lastSubscriberId' = lastSubscriberId + 1
           /\ addressSubscriptions' = Put(addressSubscriptions, address, subscriberId)
           /\ addressKeys' = KeysAfterPut(addressKeys, address)
           /\ subscriptions' = Put(subscriptions, subscriberId, NewSubject(HasSocket))
           /\ syncedSubscriptions' =
                  Put(syncedSubscriptions, subscriberId, NewBehaviorSubject(FALSE, FALSE))
           /\ IF HasSocket
              THEN /\ calls' = Put(calls, subscriberId, NewCall("Atoms.subscribe", address))
                   /\ lastOp' = Op("subscribe", subscriberId, address)
              ELSE /\ calls' = calls
                   /\ lastOp' = Threw(Op("subscribe", subscriberId, address), TypeError)
    /\ emitted' = <<>>
    /\ UNCHANGED <<atomUpdateSubjects, transport, timeouts, unsubs, nUnsubs, unsubAlls,
                   hist, nNotifs, pings>>

\* a call that was sent is answered by the node while the Client it was sent on is
\* ready; with no reply timeout, a call still pending when that Client closes
\* never settles
CanSettle(c) == c.state = "pending" /\ c.sent /\ sockets[c.session].ready
\* the .catch callback of a call runs: the call is rejected by the node, or by
\* the Client that was not ready to send it, or its .then callback has thrown
CanFail(c) ==
    \/ c.state = "pending" /\ (c.sent => sockets[c.session].ready)
    \/ c.state = "thrown"
\* the error the .catch callback is given
CallError(c) ==
    IF c.state = "thrown" THEN c.thrown ELSE IF c.sent THEN RpcError ELSE NotReadyError

\* .then of the subscribe call
SubscribeResolved(id) ==
    /\ id \in DOMAIN subscriptions
    /\ id \in DOMAIN calls
    /\ CanSettle(calls[id])
    /\ calls' = [calls EXCEPT ![id].state = "ok"]
    /\ lastOp' = Op("subscribe.then", id, "")
    /\ emitted' = <<>>
    /\ UNCHANGED <<lastSubscriberId, tables, transport, timeouts, unsubs, nUnsubs,
                   unsubAlls, hist, nNotifs, pings>>

\* .catch of the subscribe call: this._subscriptions[subscriberId].error(error)
MutSubscribeRejectedSilent(id) ==
    /\ id \in DOMAIN subscriptions
    /\ id \in DOMAIN calls
    /\ CanFail(calls[id])
    /\ emitted' = <<>>
    /\ calls' = [calls EXCEPT ![id].state = "failed"]
    /\ lastOp' = [Op("subscribe.catch", id, "") EXCEPT !.error = CallError(calls[id])]
    /\ UNCHANGED <<lastSubscriberId, tables, transport, timeouts, unsubs, nUnsubs, unsubAlls,
                   hist, nNotifs, pings>>
SubscribeRejected(id) ==
    /\ id \in DOMAIN subscriptions
    /\ id \in DOMAIN calls
    /\ CanFail(calls[id])
    /\ LET error == CallError(calls[id])
       IN  /\ subscriptions' = [subscriptions EXCEPT ![id] = SubjectError(@, error)]
           /\ emitted' = <<EmitError("subscription", id, error)>>
           /\ lastOp' = [Op("subscribe.catch", id, "")
                            EXCEPT !.error = error, !.threw = Throws(subscriptions[id])]
    /\ calls' = [calls EXCEPT ![id].state = "failed"]
    /\ UNCHANGED <<lastSubscriberId, atomUpdateSubjects, addressSubscriptions, addressKeys,
                   syncedSubscriptions, transport, timeouts, unsubs, nUnsubs, unsubAlls,
                   hist, nNotifs, pings>>

(* ------------------------------ unsubscribe ---------------------------- *)
\* the cancel call unsubscribe(address) makes; group is the unsubscribeAll call that
\* made it (0: the caller called unsubscribe itself)
CancelCall(address, group) ==
    [address |-> address,
     subscriberId |-> IF address \in DOMAIN addressSubscriptions
                      THEN addressSubscriptions[address] ELSE Undefined,
     state |-> "pending", session |-> Len(sockets), sent |-> ready, thrown |-> <<>>,
     group |-> group]

\* unsubscribe(address): with no Client yet the promise's executor throws, and
\* the promise returned is rejected with that TypeError
Unsubscribe(address) ==
    /\ nUnsubs < MaxUnsubs
    /\ nUnsubs' = nUnsubs + 1
    /\ IF HasSocket
       THEN /\ unsubs' = Append(unsubs, CancelCall(address, 0))
            /\ lastOp' = Op("unsubscribe", CancelCall(address, 0).subscriberId, address)
       ELSE /\ unsubs' = unsubs
            /\ lastOp' = [Op("unsubscribe", CancelCall(address, 0).subscriberId, address)
                             EXCEPT !.result = "rejected", !.error = TypeError]
    /\ emitted' = <<>>
    /\ UNCHANGED <<lastSubscriberId, tables, transport, calls, timeouts, hist, nNotifs,
                   pings, unsubAlls>>

\* a settled call leaves the list of calls in flight
RemoveAt(seq, i) == [j \in 1..(Len(seq) - 1) |-> IF j < i THEN seq[j] ELSE seq[j + 1]]

\* Promise.all over the promises of one unsubscribeAll call, when one of them
\* settles: it counts the members that resolved and keeps the first rejection
PromiseAll(p, ok, e) ==
    [p EXCEPT !.settled = @ + 1,
              !.fulfilled = IF ok THEN @ + 1 ELSE @,
              !.first = IF ~ok /\ p.settled = p.fulfilled THEN e ELSE @]
\* the promise of unsubscribe settles: the Promise.all it belongs to, if any, sees it
MemberSettled(group, ok, e) ==
    IF group = 0 THEN unsubAlls
    ELSE [unsubAlls EXCEPT ![group] = PromiseAll(@, ok, e)]

\* what the .then callback of the cancel call removes from the connection:
\* delete this._addressSubscriptions[address]
MutUnsubscribeCleanupKeeps(address) == addressSubscriptions
UnsubscribeCleanup(address) == Delete(addressSubscriptions, address)

\* what the .then callback does after deleting the mapping:
\* this._subscriptions[subscriberId].complete(); resolve(response).  With no
\* subject under the identifier, or a subject the caller closed, the callback
\* throws before resolve: the promise stays pending until the chained .catch, a
\* later promise job, rejects it with what was thrown.
ThenOutcome(subscriberId) ==
    IF subscriberId \notin DOMAIN subscriptions THEN TypeError
    ELSE IF Throws(subscriptions[subscriberId]) THEN ObjectUnsubscribedError
    ELSE <<>>

\* .then of the cancel call
UnsubscribeResolved(i) ==
    /\ i \in DOMAIN unsubs
    /\ CanSettle(unsubs[i])
    /\ LET u == unsubs[i]
           thrown == ThenOutcome(u.subscriberId)
       IN  /\ addressSubscriptions' = UnsubscribeCleanup(u.address)
           /\ addressKeys' = KeysAfterDelete(addressKeys, u.address)
           /\ subscriptions' =
                  IF u.subscriberId \in DOMAIN subscriptions
                  THEN [subscriptions EXCEPT ![u.subscriberId] = SubjectComplete(@)]
                  ELSE subscriptions
           /\ emitted' = IF u.subscriberId \in DOMAIN subscriptions
                         THEN <<EmitComplete("subscription", u.subscriberId)>> ELSE <<>>
           /\ IF thrown = <<>>
              THEN /\ lastOp' = [Op("unsubscribe.then", u.subscriberId, u.address)
                                    EXCEPT !.result = "resolved"]
                   /\ unsubAlls' = MemberSettled(u.group, TRUE, <<>>)
                   /\ unsubs' = RemoveAt(unsubs, i)
              ELSE /\ lastOp' = Threw(Op("unsubscribe.then", u.subscriberId, u.address),
                                      thrown)
                   /\ unsubAlls' = unsubAlls
                   /\ unsubs' = [unsubs EXCEPT ![i].state = "thrown", ![i].thrown = thrown]
    /\ UNCHANGED <<lastSubscriberId, atomUpdateSubjects, syncedSubscriptions, transport,
                   calls, timeouts, hist, nNotifs, nUnsubs, pings>>

\* .catch of the cancel call, which also catches what .then threw: reject(error)
MutUnsubscribeRejectedCleans(i) ==
    /\ i \in DOMAIN unsubs
    /\ CanFail(unsubs[i])
    /\ unsubs' = RemoveAt(unsubs, i)
    /\ addressSubscriptions' = UnsubscribeCleanup(unsubs[i].address)
    /\ addressKeys' = KeysAfterDelete(addressKeys, unsubs[i].address)
    /\ unsubAlls' = MemberSettled(unsubs[i].group, FALSE, CallError(unsubs[i]))
    /\ lastOp' = [Op("unsubscribe.catch", unsubs[i].subscriberId, unsubs[i].address)
                     EXCEPT !.result = "rejected", !.error = CallError(unsubs[i])]
    /\ emitted' = <<>>
    /\ UNCHANGED <<lastSubscriberId, subscriptions, atomUpdateSubjects,
                   syncedSubscriptions, transport, calls, timeouts, hist, nNotifs,
                   nUnsubs, pings>>
UnsubscribeRejected(i) ==
    /\ i \in DOMAIN unsubs
    /\ CanFail(unsubs[i])
    /\ unsubs' = RemoveAt(unsubs, i)
    /\ unsubAlls' = MemberSettled(unsubs[i].group, FALSE, CallError(unsubs[i]))
    /\ lastOp' = [Op("unsubscribe.catch", unsubs[i].subscriberId, unsubs[i].address)
                     EXCEPT !.result = "rejected", !.error = CallError(unsubs[i])]
    /\ emitted' = <<>>
    /\ UNCHANGED <<lastSubscriberId, tables, transport, calls, timeouts, hist, nNotifs,
                   nUnsubs, pings>>

\* isSynced(address): the result is <<subject>>, or <<>> when the lookup yields
\* undefined (no mapping for the address, or no sync status under its identifier)
IsSynced(address) ==
    LET subscriberId == IF address \in DOMAIN addressSubscriptions
                        THEN addressSubscriptions[address] ELSE Undefined
    IN  IF subscriberId \in DOMAIN syncedSubscriptions
        THEN <<syncedSubscriptions[subscriberId]>>
        ELSE <<>>

(* ----------------------------- unsubscribeAll -------------------------- *)
\* for (const address in this._addressSubscriptions) push(this.unsubscribe(address));
\* Promise.all(unsubscriptions).  With no Client every unsubscribe returns a
\* promise already rejected with the TypeError.
UnsubscribeAll ==
    /\ Len(unsubAlls) < MaxUnsubAlls
    /\ LET group == Len(unsubAlls) + 1
           total == Len(addressKeys)
       IN  /\ unsubs' = IF HasSocket
                        THEN unsubs \o [i \in DOMAIN addressKeys |->
                                            CancelCall(addressKeys[i], group)]
                        ELSE unsubs
           /\ unsubAlls' = Append(unsubAlls,
                  [total |-> total, fulfilled |-> 0,
                   settled |-> IF HasSocket THEN 0 ELSE total,
                   first |-> IF HasSocket \/ total = 0 THEN <<>> ELSE TypeError,
                   promise |-> "pending", error |-> <<>>, addresses |-> addressKeys])
           /\ lastOp' = Op("unsubscribeAll", IdStr(group), "")
    /\ emitted' = <<>>
    /\ UNCHANGED <<lastSubscriberId, tables, transport, calls, timeouts, nUnsubs, hist,
                   nNotifs, pings>>

\* what Promise.all has decided: it rejects once a member has rejected, and
\* resolves once every member has resolved (at once when there is no member)
PromiseAllOutcome(p) ==
    IF p.settled > p.fulfilled THEN "rejected"
    ELSE IF p.fulfilled = p.total THEN "resolved"
    ELSE "pending"

\* the jobs that follow a decision of Promise.all: .then(resolve) / .catch(reject)
\* settle the promise unsubscribeAll returned.  The cancel calls a Client refused
\* were all rejected when unsubscribeAll made them, and the .catch jobs of those
\* rejections, like the .catch job that follows a .then callback that threw, run
\* before these jobs.
UnsubscribeAllSettled(g) ==
    /\ g \in DOMAIN unsubAlls
    /\ unsubAlls[g].promise = "pending"
    /\ PromiseAllOutcome(unsubAlls[g]) # "pending"
    /\ \A i \in DOMAIN unsubs :
           unsubs[i].group = g => (unsubs[i].sent /\ unsubs[i].state # "thrown")
    /\ unsubAlls' = [unsubAlls EXCEPT ![g].promise = PromiseAllOutcome(unsubAlls[g]),
                                      ![g].error = unsubAlls[g].first]
    /\ lastOp' = [Op("unsubscribeAll.settled", IdStr(g), "")
                     EXCEPT !.result = PromiseAllOutcome(unsubAlls[g]),
                            !.error = unsubAlls[g].first]
    /\ emitted' = <<>>
    /\ UNCHANGED <<lastSubscriberId, tables, transport, calls, timeouts, unsubs, nUnsubs,
                   hist, nNotifs, pings>>

\* No promise job is waiting: every decision of Promise.all has been followed by
\* its jobs, every call a Client refused has been rejected, and what a .then
\* callback threw has been caught.  The promise jobs of a turn of the event loop
\* run before the next timer or transport event.
JobsDone ==
    /\ \A g \in DOMAIN unsubAlls :
           unsubAlls[g].promise = "pending" => PromiseAllOutcome(unsubAlls[g]) = "pending"
    /\ \A id \in DOMAIN calls :
           /\ calls[id].state = "pending" => calls[id].sent
           /\ calls[id].state # "thrown"
    /\ \A i \in DOMAIN unsubs : unsubs[i].sent /\ unsubs[i].state # "thrown"

(* ------------------------------- submitAtom ---------------------------- *)
\* submitAtom(atom): the subject is stored and the timer armed before
\* this._socket is read, so with no Client yet both stay and the call throws:
\* the subject is returned to nobody
SubmitAtom ==
    /\ lastSubscriberId - 1 < MaxIds
    /\ LET subscriberId == GetSubscriberId
       IN  /\ lastSubscriberId' = lastSubscriberId + 1
           /\ atomUpdateSubjects' =
                  Put(atomUpdateSubjects, subscriberId, NewBehaviorSubject("CREATED", HasSocket))
           /\ timeouts' = Put(timeouts, subscriberId, "armed")
           /\ hist' = Put(hist, subscriberId, <<>>)
           /\ IF HasSocket
              THEN /\ calls' = Put(calls, subscriberId,
                                   NewCall("Universe.submitAtomAndSubscribe", ""))
                   /\ lastOp' = Op("submitAtom", subscriberId, "")
              ELSE /\ calls' = calls
                   /\ lastOp' = Threw(Op("submitAtom", subscriberId, ""), TypeError)
    /\ emitted' = <<>>
    /\ UNCHANGED <<subscriptions, addressSubscriptions, addressKeys, syncedSubscriptions,
                   transport, unsubs, nUnsubs, unsubAlls, nNotifs, pings>>

\* clearTimeout(timeout)
ClearTimeout(t) == IF t = "armed" THEN "cleared" ELSE t

\* .then of the submit call: clearTimeout(timeout); atomStateSubject.next('SUBMITTED').
\* On a subject the caller closed next throws inside the callback: the chained
\* .catch runs as a later promise job with what was thrown.
SubmitResolved(id) ==
    /\ id \in DOMAIN atomUpdateSubjects
    /\ id \in DOMAIN calls
    /\ CanSettle(calls[id])
    /\ timeouts' = [timeouts EXCEPT ![id] = ClearTimeout(@)]
    /\ atomUpdateSubjects' =
           [atomUpdateSubjects EXCEPT ![id] = BehaviorNext(@, "SUBMITTED")]
    /\ hist' = [hist EXCEPT ![id] = Append(@, "ACK_OK")]
    /\ emitted' = <<EmitNextState(id, "SUBMITTED")>>
    /\ IF Throws(atomUpdateSubjects[id])
       THEN /\ lastOp' = Threw(Op("submitAtom.then", id, ""), ObjectUnsubscribedError)
            /\ calls' = [calls EXCEPT ![id].state = "thrown",
                                      ![id].thrown = ObjectUnsubscribedError]
       ELSE /\ lastOp' = Op("submitAtom.then", id, "")
            /\ calls' = [calls EXCEPT ![id].state = "ok"]
    /\ UNCHANGED <<lastSubscriberId, subscriptions, addressSubscriptions, addressKeys,
                   syncedSubscriptions, transport, unsubs, nUnsubs, unsubAlls, nNotifs,
                   pings>>

\* .catch of the submit call, which also catches what .then threw:
\* clearTimeout(timeout); atomStateSubject.error(error)
SubmitRejected(id) ==
    /\ id \in DOMAIN atomUpdateSubjects
    /\ id \in DOMAIN calls
    /\ CanFail(calls[id])
    /\ LET error == CallError(calls[id])
       IN  /\ atomUpdateSubjects' =
                  [atomUpdateSubjects EXCEPT ![id] = SubjectError(@, error)]
           /\ emitted' = <<EmitError("atomUpdate", id, error)>>
           /\ lastOp' = [Op("submitAtom.catch", id, "")
                            EXCEPT !.error = error, !.threw = Throws(atomUpdateSubjects[id])]
    /\ calls' = [calls EXCEPT ![id].state = "failed"]
    /\ timeouts' = [timeouts EXCEPT ![id] = ClearTimeout(@)]
    /\ hist' = [hist EXCEPT ![id] = Append(@, IF calls[id].state = "thrown"
                                              THEN "CAUGHT" ELSE "ACK_FAIL")]
    /\ UNCHANGED <<lastSubscriberId, subscriptions, addressSubscriptions, addressKeys,
                   syncedSubscriptions, transport, unsubs, nUnsubs, unsubAlls, nNotifs,
                   pings>>

\* the 5 s timer of submitAtom: this._socket.close(); atomStateSubject.error(...).
\* With no Client the first statement throws and error is not called.
SubmitTimeout(id) ==
    /\ id \in DOMAIN timeouts
    /\ timeouts[id] = "armed"
    /\ timeouts' = [timeouts EXCEPT ![id] = "fired"]
    /\ sockets' = CloseSocket(sockets)
    /\ hist' = [hist EXCEPT ![id] = Append(@, "TIMEOUT")]
    /\ IF HasSocket
       THEN /\ atomUpdateSubjects' =
                   [atomUpdateSubjects EXCEPT ![id] = SubjectError(@, SocketTimeoutError)]
            /\ emitted' = <<EmitError("atomUpdate", id, SocketTimeoutError)>>
            /\ lastOp' = IF Throws(atomUpdateSubjects[id])
                         THEN Threw(Op("submitTimeout", id, ""), ObjectUnsubscribedError)
                         ELSE Op("submitTimeout", id, "")
       ELSE /\ atomUpdateSubjects' = atomUpdateSubjects
            /\ emitted' = <<>>
            /\ lastOp' = Threw(Op("submitTimeout", id, ""), TypeError)
    /\ UNCHANGED <<lastSubscriberId, subscriptions, addressSubscriptions, addressKeys,
                   syncedSubscriptions, pingInterval, leakedIntervals, opens, calls, unsubs,
                   nUnsubs, unsubAlls, nNotifs, pings>>

(* ---------------------- _onAtomSubmissionStateUpdate ------------------- *)
\* the switch over notification.value, applied to the subject
MutStateUpdateSubjectNoComplete(subject, value, message) ==
    CASE value \in ProgressValues \cup {"STORED"} -> BehaviorNext(subject, value)
      [] value \in FailureValues -> SubjectError(subject, FailureError(value, message))
      [] OTHER -> subject
MutStateUpdateSubjectDropsMessage(subject, value, message) ==
    CASE value \in ProgressValues -> BehaviorNext(subject, value)
      [] value = "STORED" -> SubjectComplete(BehaviorNext(subject, value))
      [] value \in FailureValues -> SubjectError(subject, <<value>>)
      [] OTHER -> subject
StateUpdateSubject(subject, value, message) ==
    CASE value \in ProgressValues -> BehaviorNext(subject, value)
      [] value = "STORED" -> SubjectComplete(BehaviorNext(subject, value))
      [] value \in FailureValues -> SubjectError(subject, FailureError(value, message))
      [] OTHER -> subject

\* the calls the switch makes on the subject: the first call on a closed subject
\* throws, and complete() is not reached
StateUpdateEmitted(id, subject, value, message) ==
    CASE value \in ProgressValues -> <<EmitNextState(id, value)>>
      [] value = "STORED" ->
             IF Throws(subject) THEN <<EmitNextState(id, value)>>
             ELSE <<EmitNextState(id, value), EmitComplete("atomUpdate", id)>>
      [] value \in FailureValues ->
             <<EmitError("atomUpdate", id, FailureError(value, message))>>
      [] OTHER -> <<>>
\* the switch calls the subject
StateUpdateCalls(value) == value \in ProgressValues \cup {"STORED"} \cup FailureValues

\* a notification is delivered by a Client that is ready, to the listeners
\* registered on it: the transport calls them one after the other, until one
\* throws
Delivers(g) == sockets[g].ready /\ sockets[g].listeners > 0
Listeners(g) == sockets[g].listeners

\* the listeners of one notification run on the subject; r holds the subject,
\* the calls made so far and whether a call threw
RECURSIVE StateUpdateRuns(_, _, _, _, _)
StateUpdateRuns(r, n, id, value, message) ==
    IF n = 0 \/ r.threw THEN r
    ELSE StateUpdateRuns(
             [subject |-> StateUpdateSubject(r.subject, value, message),
              emitted |-> r.emitted \o StateUpdateEmitted(id, r.subject, value, message),
              threw |-> Throws(r.subject) /\ StateUpdateCalls(value)],
             n - 1, id, value, message)

\* the handler reads this._atomUpdateSubjects[notification.subscriberId] whatever
\* the identifier: with no subject under it the first call of the switch throws
OnAtomSubmissionStateUpdate(n, value, message) ==
    /\ nNotifs < MaxNotifs
    /\ \E g \in DOMAIN sockets :
           /\ Delivers(g)
           /\ LET id == IdStr(n)
                  known == id \in DOMAIN atomUpdateSubjects
                  r == IF known
                       THEN StateUpdateRuns([subject |-> atomUpdateSubjects[id],
                                             emitted |-> <<>>, threw |-> FALSE],
                                            Listeners(g), id, value, message)
                       ELSE [subject |-> <<>>, emitted |-> <<>>,
                             threw |-> StateUpdateCalls(value)]
              IN  /\ atomUpdateSubjects' =
                         IF known THEN [atomUpdateSubjects EXCEPT ![id] = r.subject]
                         ELSE atomUpdateSubjects
                  /\ hist' = IF id \in DOMAIN hist
                             THEN [hist EXCEPT ![id] = Append(@, value)] ELSE hist
                  /\ lastOp' = [Op("AtomSubmissionState.onNext", id, value)
                                   EXCEPT !.msg = message, !.threw = r.threw,
                                          !.error = IF ~r.threw THEN <<>>
                                                    ELSE IF known THEN ObjectUnsubscribedError
                                                    ELSE TypeError]
                  /\ emitted' = r.emitted
    /\ nNotifs' = nNotifs + 1
    /\ UNCHANGED <<lastSubscriberId, subscriptions, addressSubscriptions, addressKeys,
                   syncedSubscriptions, transport, calls, timeouts, unsubs, nUnsubs,
                   unsubAlls, pings>>

(* ----------------------- _onAtomReceivedNotification ------------------- *)
\* for (const atom of deserializedAtoms) subscription.next({...})
RECURSIVE MutForwardAtomsReversed(_, _)
MutForwardAtomsReversed(subscription, atoms) ==
    IF atoms = <<>> THEN subscription
    ELSE SubjectNext(MutForwardAtomsReversed(subscription, Tail(atoms)),
                     StoreUpdate(Head(atoms)))
RECURSIVE ForwardAtoms(_, _)
ForwardAtoms(subscription, atoms) ==
    IF atoms = <<>> THEN subscription
    ELSE ForwardAtoms(SubjectNext(subscription, StoreUpdate(Head(atoms))), Tail(atoms))

\* the calls of one run that does not throw while forwarding, in the order the
\* handler makes them
AtomReceivedEmitted(id, atoms, isHead) ==
    [i \in DOMAIN atoms |-> EmitNextUpdate(id, StoreUpdate(atoms[i]))]
        \o <<EmitNextSynced(id, isHead)>>

\* one run of the handler on the subscriber's two subjects.  On a delivery
\* channel the caller closed the first next throws: nothing more is forwarded and
\* the sync status is not touched.  On a sync status the caller closed the
\* value is stored and next throws.
AtomReceivedRun(r, id, atoms, isHead) ==
    IF atoms # <<>> /\ Throws(r.subscription)
    THEN [r EXCEPT !.emitted = Append(@, EmitNextUpdate(id, StoreUpdate(atoms[1]))),
                   !.threw = TRUE]
    ELSE [subscription |-> ForwardAtoms(r.subscription, atoms),
          synced |-> BehaviorNext(r.synced, isHead),
          emitted |-> r.emitted \o AtomReceivedEmitted(id, atoms, isHead),
          threw |-> Throws(r.synced)]
\* the listeners of one notification, one after the other, until one throws
RECURSIVE AtomReceivedRuns(_, _, _, _, _)
AtomReceivedRuns(r, n, id, atoms, isHead) ==
    IF n = 0 \/ r.threw THEN r
    ELSE AtomReceivedRuns(AtomReceivedRun(r, id, atoms, isHead), n - 1, id, atoms, isHead)

\* the handler reads this._subscriptions[notification.subscriberId] and
\* this._syncedSubscriptions[...] whatever the identifier: with no subjects under
\* it the first call throws (subscribe writes both tables, nothing deletes from them)
MutOnAtomReceivedBroadcast(n, wire, isHead) ==
    /\ nNotifs < MaxNotifs
    /\ \E g \in DOMAIN sockets : Delivers(g)
    /\ IdStr(n) \in DOMAIN subscriptions
    /\ LET id == IdStr(n)
           deserializedAtoms == FromJSON(wire)
       IN  /\ subscriptions' =
                  [x \in DOMAIN subscriptions |->
                      ForwardAtoms(subscriptions[x], deserializedAtoms)]
           /\ syncedSubscriptions' =
                  [syncedSubscriptions EXCEPT ![id] = BehaviorNext(@, isHead)]
           /\ lastOp' = [Op("Atoms.subscribeUpdate", id, "")
                            EXCEPT !.atoms = wire, !.isHead = isHead]
           /\ emitted' = AtomReceivedEmitted(id, deserializedAtoms, isHead)
    /\ nNotifs' = nNotifs + 1
    /\ UNCHANGED <<lastSubscriberId, atomUpdateSubjects, addressSubscriptions, addressKeys,
                   transport, calls, timeouts, unsubs, nUnsubs, unsubAlls, hist, pings>>
OnAtomReceivedNotification(n, wire, isHead) ==
    /\ nNotifs < MaxNotifs
    /\ \E g \in DOMAIN sockets :
           /\ Delivers(g)
           /\ LET id == IdStr(n)
                  known == id \in DOMAIN subscriptions
                  deserializedAtoms == FromJSON(wire)
                  r == IF known
                       THEN AtomReceivedRuns([subscription |-> subscriptions[id],
                                              synced |-> syncedSubscriptions[id],
                                              emitted |-> <<>>, threw |-> FALSE],
                                             Listeners(g), id, deserializedAtoms, isHead)
                       ELSE [subscription |-> <<>>, synced |-> <<>>, emitted |-> <<>>,
                             threw |-> TRUE]
              IN  /\ subscriptions' =
                         IF known THEN [subscriptions EXCEPT ![id] = r.subscription]
                         ELSE subscriptions
                  /\ syncedSubscriptions' =
                         IF known THEN [syncedSubscriptions EXCEPT ![id] = r.synced]
                         ELSE syncedSubscriptions
                  /\ lastOp' = [Op("Atoms.subscribeUpdate", id, "")
                                   EXCEPT !.atoms = wire, !.isHead = isHead,
                                          !.threw = r.threw,
                                          !.error = IF ~r.threw THEN <<>>
                                                    ELSE IF known THEN ObjectUnsubscribedError
                                                    ELSE TypeError]
                  /\ emitted' = r.emitted
    /\ nNotifs' = nNotifs + 1
    /\ UNCHANGED <<lastSubscriberId, atomUpdateSubjects, addressSubscriptions, addressKeys,
                   transport, calls, timeouts, unsubs, nUnsubs, unsubAlls, hist, pings>>

(* ------------------------------ close / _onClosed ---------------------- *)
\* if (!subject.closed) subject.error('Socket closed')
MutCloseSubjectBehaviorOnly(subject) ==
    IF ~subject.closed /\ "value" \in DOMAIN subject
    THEN SubjectError(subject, SocketClosedError) ELSE subject
CloseSubject(subject) ==
    IF ~subject.closed THEN SubjectError(subject, SocketClosedError) ELSE subject

\* the error calls of the two loops, over the subjects that are not closed
CloseEmitted(on, table) ==
    LET ids == SelectSeq(Keys(table), LAMBDA id : ~table[id].closed)
    IN  [i \in DOMAIN ids |-> EmitError(on, ids[i], SocketClosedError)]
OnClosedEmitted ==
    CloseEmitted("subscription", subscriptions)
        \o CloseEmitted("atomUpdate", atomUpdateSubjects)
        \o <<EmitEvent("closed")>>

\* _onClosed, the handler of the 'close' event of every Client the connection made
OnClosed ==
    /\ pingInterval' = IF pingInterval = "active" THEN "cleared" ELSE pingInterval
    /\ subscriptions' = [id \in DOMAIN subscriptions |-> CloseSubject(subscriptions[id])]
    /\ atomUpdateSubjects' =
           [id \in DOMAIN atomUpdateSubjects |-> CloseSubject(atomUpdateSubjects[id])]
    /\ hist' = [id \in DOMAIN hist |-> Append(hist[id], "CLOSED")]
    /\ emitted' = OnClosedEmitted

\* close(): this._socket.close(); with no socket yet the property access throws
MutCloseNotifiesAgain ==
    /\ sockets' = CloseSocket(sockets)
    /\ lastOp' = IF HasSocket THEN Op("close", "", "") ELSE Threw(Op("close", "", ""), TypeError)
    /\ IF sockState = "closed"
       THEN OnClosed
       ELSE /\ emitted' = <<>>
            /\ UNCHANGED <<subscriptions, atomUpdateSubjects, pingInterval, hist>>
    /\ UNCHANGED <<lastSubscriberId, addressSubscriptions, addressKeys, syncedSubscriptions,
                   leakedIntervals, opens, calls, timeouts, unsubs, nUnsubs, unsubAlls,
                   nNotifs, pings>>
Close ==
    /\ sockets' = CloseSocket(sockets)
    /\ lastOp' = IF HasSocket THEN Op("close", "", "") ELSE Threw(Op("close", "", ""), TypeError)
    /\ emitted' = <<>>
    /\ UNCHANGED <<lastSubscriberId, tables, pingInterval, leakedIntervals, opens, calls,
                   timeouts, unsubs, nUnsubs, unsubAlls, hist, nNotifs, pings>>

\* the Client of open request g, which was ready, closes (by close(), or from the
\* far end) and emits 'close'
SocketCloseEvent(g) ==
    /\ g \in DOMAIN sockets
    /\ sockets[g].ready
    /\ sockets' = [sockets EXCEPT ![g].state = "closed", ![g].ready = FALSE]
    /\ OnClosed
    /\ lastOp' = Op("socket.close", IdStr(g), "")
    /\ UNCHANGED <<lastSubscriberId, addressSubscriptions, addressKeys, syncedSubscriptions,
                   leakedIntervals, opens, calls, timeouts, unsubs, nUnsubs, unsubAlls,
                   nNotifs, pings>>

\* a Client that never became ready closes without a 'close' event
SocketCloseQuiet(g) ==
    /\ g \in DOMAIN sockets
    /\ sockets[g].state = "closing"
    /\ ~sockets[g].ready
    /\ sockets' = [sockets EXCEPT ![g].state = "closed"]
    /\ lastOp' = Op("socket.closeQuiet", IdStr(g), "")
    /\ emitted' = <<>>
    /\ UNCHANGED <<lastSubscriberId, tables, pingInterval, leakedIntervals, opens, calls,
                   timeouts, unsubs, nUnsubs, unsubAlls, hist, nNotifs, pings>>

(* ------------------------ the holder of a stream ----------------------- *)
\* The caller holds the Subject that subscribe or submitAtom returned, or the one
\* isSynced hands out, and calls unsubscribe() on it: the subject is closed.
CallerUnsubscribesSubject(on, id) ==
    /\ \/ /\ on = "subscription"
          /\ id \in DOMAIN subscriptions
          /\ subscriptions[id].observed
          /\ ~subscriptions[id].closed
          /\ subscriptions' = [subscriptions EXCEPT ![id] = SubjectUnsubscribe(@)]
          /\ UNCHANGED <<atomUpdateSubjects, syncedSubscriptions, hist>>
       \/ /\ on = "atomUpdate"
          /\ id \in DOMAIN atomUpdateSubjects
          /\ atomUpdateSubjects[id].observed
          /\ ~atomUpdateSubjects[id].closed
          /\ atomUpdateSubjects' =
                 [atomUpdateSubjects EXCEPT ![id] = SubjectUnsubscribe(@)]
          /\ hist' = [hist EXCEPT ![id] = Append(@, "UNSUBSCRIBED")]
          /\ UNCHANGED <<subscriptions, syncedSubscriptions>>
       \/ /\ on = "synced"
          /\ id \in DOMAIN syncedSubscriptions
          /\ ~syncedSubscriptions[id].closed
          /\ syncedSubscriptions' =
                 [syncedSubscriptions EXCEPT ![id] = SubjectUnsubscribe(@)]
          /\ UNCHANGED <<subscriptions, atomUpdateSubjects, hist>>
    /\ lastOp' = Op("subject.unsubscribe", id, on)
    /\ emitted' = <<>>
    /\ UNCHANGED <<lastSubscriberId, addressSubscriptions, addressKeys, transport, calls,
                   timeouts, unsubs, nUnsubs, unsubAlls, nNotifs, pings>>

(* ------------------------------ specification -------------------------- *)
\* A timer or an event of a transport starts a new turn of the event loop, when no
\* promise job is waiting; the caller's operations, the replies and the
\* notifications of the node may come within one turn.

\* the transport's life without its failures: open request, ready, close
Lifecycle ==
    \/ OpenConnection
    \/ \E g \in 1..MaxOpens : JobsDone /\ SocketOpen(g)
    \/ Close
    \/ \E g \in 1..MaxOpens : JobsDone /\ SocketCloseEvent(g)

\* failures of the transport, the open timer and the liveness probe
LifecycleFailures ==
    \/ \E g \in 1..MaxOpens : JobsDone /\ SocketError(g)
    \/ \E g \in 1..MaxOpens : JobsDone /\ OpenTimeout(g)
    \/ \E g \in 1..MaxOpens : JobsDone /\ SocketCloseQuiet(g)
    \/ JobsDone /\ Ping
    \/ \E i \in 1..MaxPings, ok \in BOOLEAN : PingResult(i, ok)

\* the subscription operations, for the addresses the caller uses, the batches
\* the node is let send and the number of unsubscribe calls the caller makes
SubscriptionsOf(addresses, batches, unsubscribes) ==
    \/ \E a \in addresses : Subscribe(a)
    \/ \E n \in 2..(MaxIds + 1) : SubscribeResolved(IdStr(n))
    \/ \E n \in 2..(MaxIds + 1) : SubscribeRejected(IdStr(n))
    \/ \E a \in addresses : nUnsubs < unsubscribes /\ Unsubscribe(a)
    \/ \E i \in 1..MaxUnsubs : UnsubscribeResolved(i)
    \/ \E i \in 1..MaxUnsubs : UnsubscribeRejected(i)
    \/ \E n \in 2..(MaxIds + 1), wire \in batches, isHead \in BOOLEAN :
           OnAtomReceivedNotification(n, wire, isHead)

\* the submission operations, for the notifications the node is let send
SubmissionsOf(reports) ==
    \/ SubmitAtom
    \/ \E n \in 2..(MaxIds + 1) : SubmitResolved(IdStr(n))
    \/ \E n \in 2..(MaxIds + 1) : SubmitRejected(IdStr(n))
    \/ \E n \in 2..(MaxIds + 1) : JobsDone /\ SubmitTimeout(IdStr(n))
    \/ \E n \in 2..(MaxIds + 1), r \in reports :
           OnAtomSubmissionStateUpdate(n, r[1], r[2])

\* unsubscribeAll, the settlement of every cancel call in flight, and the jobs
\* that settle the promise unsubscribeAll returned
UnsubscribeAllOps ==
    \/ UnsubscribeAll
    \/ \E i \in 1..(MaxUnsubs + MaxUnsubAlls * Cardinality(Addresses)) :
           UnsubscribeResolved(i)
    \/ \E i \in 1..(MaxUnsubs + MaxUnsubAlls * Cardinality(Addresses)) :
           UnsubscribeRejected(i)
    \/ \E g \in 1..MaxUnsubAlls : UnsubscribeAllSettled(g)

\* the holder of a returned stream closes it, for the streams of the given kinds
\* and identifiers
HolderOf(kinds, ids) ==
    \E on \in kinds, id \in ids : CallerUnsubscribesSubject(on, id)
AllIds == {IdStr(n) : n \in 2..(MaxIds + 1)}

Next ==
    \/ Lifecycle
    \/ LifecycleFailures
    \/ SubscriptionsOf(Addresses, Batches, MaxUnsubs)
    \/ SubmissionsOf(NodeReports)
    \/ UnsubscribeAllOps
    \/ HolderOf({"subscription", "atomUpdate", "synced"}, AllIds)
Spec == Init /\ [][Next]_vars

\* one transport session: the connection is opened once
FirstOpen == Len(opens) = 0 /\ OpenConnection
Session ==
    \/ FirstOpen
    \/ JobsDone /\ SocketOpen(1)
    \/ Close
    \/ JobsDone /\ SocketCloseEvent(1)

\* The submission handlers read and write only the submissions' subjects, timers
\* and calls and the transport: the claims about one submission are checked with
\* the operations that reach them, within one session.
\* The holder of the first stream may close it.
NextSubmit ==
    \/ Session
    \/ SubmissionsOf(NodeReports)
    \/ HolderOf({"atomUpdate"}, {"2"})
SpecSubmit == Init /\ [][NextSubmit]_vars

\* Likewise the subscription handlers, for one address and batches of one atom.
StreamBatches == {<<"wA">>}
NextSubscribe ==
    \/ Session
    \/ SubscriptionsOf({"a1"}, StreamBatches, MaxUnsubs)
SpecSubscribe == Init /\ [][NextSubscribe]_vars

\* The same with one unsubscribe call, the batches: none, two atoms in either
\* order, and the holder of the first subscription closing its delivery channel or
\* its sync status.
SubscribeBatches == {<<>>, <<"wA", "wB">>, <<"wB", "wA">>}
NextHolder ==
    \/ Session
    \/ SubscriptionsOf({"a1"}, SubscribeBatches, 1)
    \/ HolderOf({"subscription", "synced"}, {"2"})
SpecHolder == Init /\ [][NextHolder]_vars

\* Subscriptions and submissions side by side, for what a close does to both:
\* the node reports one success and one failure, and sends batches of one atom.
StreamReports == {<<"STORED", Undefined>>, <<"VALIDATION_ERROR", "bad">>}
NextStreams ==
    \/ Session
    \/ SubscriptionsOf({"a1"}, StreamBatches, 1)
    \/ SubmissionsOf(StreamReports)
    \/ HolderOf({"subscription", "atomUpdate"}, {"2"})
SpecStreams == Init /\ [][NextStreams]_vars

\* unsubscribeAll over the subscriptions of two addresses, within one session
NextUnsubscribeAll ==
    \/ Session
    \/ \E a \in Addresses : Subscribe(a)
    \/ \E n \in 2..(MaxIds + 1) : SubscribeResolved(IdStr(n))
    \/ \E n \in 2..(MaxIds + 1) : SubscribeRejected(IdStr(n))
    \/ \E a \in Addresses : nUnsubs < 1 /\ Unsubscribe(a)
    \/ UnsubscribeAllOps
    \/ HolderOf({"subscription"}, {"2"})
SpecUnsubscribeAll == Init /\ [][NextUnsubscribeAll]_vars

\* The transport's life with its failures, over open requests that may overlap
NextLifecycle == Lifecycle \/ LifecycleFailures

SpecLifecycle == Init /\ [][NextLifecycle]_vars

\* The liveness probe beside a subscription and a submission, over open
\* requests that may overlap
NextProbe ==
    \/ NextLifecycle
    \/ Subscribe("a1")
    \/ \E n \in 2..(MaxIds + 1) : SubscribeRejected(IdStr(n))
    \/ SubmitAtom
    \/ \E n \in 2..(MaxIds + 1) : SubmitRejected(IdStr(n))
SpecProbe == Init /\ [][NextProbe]_vars

(* ------------------------------- claims -------------------------------- *)
\* the step handled r for submission id
Handled(id, op) == lastOp'.op = op /\ lastOp'.id = id

\* C1 as stated: after the RPC acknowledgement and then STORED, the observer of the
\* state stream has received exactly Submitted, Stored and the completion.
C1_ExactlySubmittedStored ==
    \A id \in DOMAIN hist :
        hist[id] = <<"ACK_OK", "STORED">> =>
            atomUpdateSubjects[id].out =
                <<NextOf("SUBMITTED"), NextOf("STORED"), CompleteOf>>

\* C1 amended: after the RPC acknowledgement and then STORED, the observer has
\* received exactly Created (the initial value), Submitted, Stored and then the
\* completion, and the stream holds no error.
C1_CreatedSubmittedStored ==
    \A id \in DOMAIN hist :
        hist[id] = <<"ACK_OK", "STORED">> =>
            /\ atomUpdateSubjects[id].out =
                   <<NextOf("CREATED"), NextOf("SUBMITTED"), NextOf("STORED"), CompleteOf>>
            /\ atomUpdateSubjects[id].isStopped
            /\ ~atomUpdateSubjects[id].hasError

C1_Witness ==
    \E id \in DOMAIN hist :
        /\ hist[id] = <<"ACK_OK", "STORED">>
        /\ lastOp.op = "AtomSubmissionState.onNext"
        /\ lastOp.id = id

\* C2: when the node reports one of the four failures for a submission whose stream
\* has emitted Submitted and was not closed by its holder, the stream is stopped
\* with an error made of the reported reason and message, which the observer of a
\* stream not yet terminated receives; a stream whose observer received an error
\* receives nothing more, and a stream in error never leaves it.
C2_NodeFailureTerminates ==
    [][\A id \in DOMAIN atomUpdateSubjects :
        LET s == atomUpdateSubjects[id]
            t == atomUpdateSubjects'[id]
        IN  /\ ( /\ Handled(id, "AtomSubmissionState.onNext")
                 /\ lastOp'.val \in FailureValues
                 /\ NextOf("SUBMITTED") \in Range(s.out)
                 /\ ~s.closed )
               => /\ t.isStopped /\ t.hasError
                  /\ lastOp'.val \in Range(t.thrownError)
                  /\ lastOp'.msg \in Range(t.thrownError)
                  /\ ~s.isStopped => t.out = Append(s.out, ErrorOf(t.thrownError))
            /\ (s.out # <<>> /\ Last(s.out).k = "error") => t.out = s.out
            /\ s.hasError => t.hasError
      ]_vars

C2_Witness ==
    \E id \in DOMAIN atomUpdateSubjects :
        /\ lastOp.op = "AtomSubmissionState.onNext"
        /\ lastOp.id = id
        /\ lastOp.val = "VALIDATION_ERROR"
        /\ lastOp.msg = "bad"
        /\ atomUpdateSubjects[id].out =
               <<NextOf("CREATED"), NextOf("SUBMITTED"),
                 ErrorOf(<<"VALIDATION_ERROR", ": ", "bad">>)>>

\* C3 as stated: whenever the timer of a submission has fired (no acknowledgement
\* came within the window), the observer of its stream, if submitAtom returned it
\* and its holder did not close it, has received the timeout failure and the
\* transport is closed or closing.
C3_TimeoutAlwaysReported ==
    \A id \in DOMAIN timeouts \cap DOMAIN calls :
        (timeouts[id] = "fired" /\ ~atomUpdateSubjects[id].closed) =>
            /\ ErrorOf(SocketTimeoutError) \in Range(atomUpdateSubjects[id].out)
            /\ sockState \in {"closing", "closed"}

\* C3 amended: when the timer of a submission that submitAtom returned a stream
\* for fires, close is called on the transport, and the observer of a stream that
\* has not yet terminated receives the timeout failure as its error; the observer
\* of a stream that had already terminated receives nothing.
C3_TimeoutOnLiveStream ==
    [][\A id \in DOMAIN timeouts \cap DOMAIN calls :
        LET s == atomUpdateSubjects[id]
            t == atomUpdateSubjects'[id]
        IN  (timeouts[id] = "armed" /\ timeouts'[id] = "fired")
            => /\ sockState' \in {"closing", "closed"}
               /\ ~s.isStopped => t.out = Append(s.out, ErrorOf(SocketTimeoutError))
               /\ s.isStopped => t.out = s.out
               /\ t.isStopped
      ]_vars

C3_Witness ==
    \E id \in DOMAIN timeouts :
        /\ timeouts[id] = "fired"
        /\ lastOp.op = "submitTimeout"
        /\ lastOp.id = id
        /\ atomUpdateSubjects[id].out = <<NextOf("CREATED"), ErrorOf(SocketTimeoutError)>>
        /\ sockState = "closing"

\* every subject the connection holds, of both tables, before and after a step:
\* each is stopped, and one that was not is in error with the connection-closed
\* error, which the observer of a stream that was returned receives
StoppedAfter(table, tableAfter) ==
    /\ DOMAIN tableAfter = DOMAIN table
    /\ \A id \in DOMAIN table :
        /\ tableAfter[id].isStopped
        /\ ~table[id].isStopped =>
               /\ tableAfter[id].hasError
               /\ tableAfter[id].thrownError = SocketClosedError
               /\ table[id].observed =>
                      tableAfter[id].out = Append(table[id].out, ErrorOf(SocketClosedError))

\* C4: when the transport's close event is handled the connection is Closed, the
\* observer of every delivery channel and every submission stream that had not
\* terminated receives the connection-closed error, and no stream is left active.
C4_CloseTerminatesAll ==
    [][lastOp'.op = "socket.close" =>
          /\ ConnState' = "Closed"
          /\ sockState' = "closed"
          /\ StoppedAfter(subscriptions, subscriptions')
          /\ StoppedAfter(atomUpdateSubjects, atomUpdateSubjects')
      ]_vars

C4_Witness ==
    /\ lastOp.op = "socket.close"
    /\ \E id \in DOMAIN subscriptions :
           subscriptions[id].out # <<>>
           /\ Last(subscriptions[id].out) = ErrorOf(SocketClosedError)
    /\ \E id \in DOMAIN atomUpdateSubjects :
           Last(atomUpdateSubjects[id].out) = ErrorOf(SocketClosedError)

\* the terminal outcome of a subject is kept by a step
KeepsOutcome(s, t) ==
    Outcome(s) # "active" => (Outcome(t) = Outcome(s) /\ t.thrownError = s.thrownError)

\* C5: a delivery channel or submission stream that has completed is never put in
\* error afterwards by the connection, and one that is in error is never given
\* another error nor completed: its terminal outcome, once reached, stays.
C5_OneTerminalOutcome ==
    [][lastOp'.op # "subject.unsubscribe" =>
          /\ \A id \in DOMAIN subscriptions :
                 KeepsOutcome(subscriptions[id], subscriptions'[id])
          /\ \A id \in DOMAIN atomUpdateSubjects :
                 KeepsOutcome(atomUpdateSubjects[id], atomUpdateSubjects'[id])
      ]_vars

\* C6: close() on a connection whose transport has closed does not throw, makes no
\* call on any subject and emits no event, and leaves the connection as it was
\* after the first close.
C6_CloseAgainChangesNothing ==
    [][(lastOp'.op = "close" /\ sockState = "closed") =>
          /\ ~lastOp'.threw
          /\ emitted' = <<>>
          /\ UNCHANGED <<lastSubscriberId, tables, transport, calls, timeouts, unsubs,
                         nUnsubs, unsubAlls, hist, nNotifs, pings>>
      ]_vars

C6_Witness ==
    /\ lastOp.op = "close"
    /\ sockState = "closed"
    /\ \E id \in DOMAIN subscriptions : subscriptions[id].isStopped
    /\ \E id \in DOMAIN atomUpdateSubjects : atomUpdateSubjects[id].isStopped

\* what the observer receives for a batch: one STORE update per atom, in order
UpdatesOf(wire) == [i \in DOMAIN wire |-> NextOf(StoreUpdate(DeserializeAtom(wire[i])))]

\* C7: handling an atom notification for a subscriber X of the connection, whose
\* delivery channel its holder has not closed, appends the batch, as STORE updates in the batch's order,
\* to what X's observer has received (so batches follow one another in receipt
\* order), and the handler's calls are the updates in order followed by exactly
\* one update of X's sync status to isHead.  Whatever the channel, the sync status
\* is updated at most once, and only after a call for every atom of the batch.
C7_BatchOrderThenSync ==
    [][(lastOp'.op = "Atoms.subscribeUpdate" /\ lastOp'.id \in DOMAIN subscriptions) =>
          LET id == lastOp'.id
              wire == lastOp'.atoms
              s == subscriptions[id]
              t == subscriptions'[id]
          IN  /\ (s.observed /\ ~s.isStopped) => t.out = s.out \o UpdatesOf(wire)
              /\ (s.isStopped \/ ~s.observed) => t.out = s.out
              /\ \A i \in DOMAIN emitted' :
                     emitted'[i].on = "synced" => i = Len(wire) + 1
              /\ \A i \in DOMAIN emitted' :
                     i <= Len(wire) =>
                         emitted'[i] =
                             EmitNextUpdate(id, StoreUpdate(DeserializeAtom(wire[i])))
              /\ ~s.closed =>
                     /\ Len(emitted') = Len(wire) + 1
                     /\ emitted'[Len(wire) + 1] = EmitNextSynced(id, lastOp'.isHead)
                     /\ syncedSubscriptions'[id].value = lastOp'.isHead
      ]_vars

C7_Witness ==
    /\ lastOp.op = "Atoms.subscribeUpdate"
    /\ lastOp.atoms = <<"wB", "wA">>
    /\ lastOp.isHead
    /\ lastOp.id \in DOMAIN subscriptions
    /\ subscriptions[lastOp.id].out = UpdatesOf(<<"wA", "wB">>) \o UpdatesOf(<<"wB", "wA">>)
    /\ syncedSubscriptions[lastOp.id].value = TRUE

\* C8: subscribe(address) takes the next subscriber identifier, which names no
\* stream yet, registers under it a delivery channel with no update and a sync
\* status of false, maps the address to it, and, on a connection that has a
\* transport, returns while the subscribe call is pending; when that call is
\* rejected the channel is stopped with that error, which the observer of a
\* channel not yet terminated receives.
C8_SubscribeRegisters ==
    [][/\ lastOp'.op = "subscribe" =>
              LET id == lastOp'.id
              IN  /\ id = IdStr(lastSubscriberId + 1)
                  /\ lastSubscriberId' = lastSubscriberId + 1
                  /\ id \notin DOMAIN subscriptions \cup DOMAIN atomUpdateSubjects
                  /\ DOMAIN subscriptions' = DOMAIN subscriptions \cup {id}
                  /\ subscriptions'[id].out = <<>>
                  /\ Outcome(subscriptions'[id]) = "active"
                  /\ syncedSubscriptions'[id].value = FALSE
                  /\ addressSubscriptions'[lastOp'.val] = id
                  /\ HasSocket =>
                         /\ ~lastOp'.threw
                         /\ id \in DOMAIN calls'
                         /\ calls'[id].state = "pending"
       /\ lastOp'.op = "subscribe.catch" =>
              LET s == subscriptions[lastOp'.id]
                  t == subscriptions'[lastOp'.id]
              IN  /\ t.isStopped /\ t.hasError
                  /\ t.thrownError = lastOp'.error
                  /\ ~s.isStopped => t.out = Append(s.out, ErrorOf(lastOp'.error))
      ]_vars

C8_Witness ==
    /\ lastOp.op = "subscribe.catch"
    /\ lastOp.error = RpcError
    /\ subscriptions[lastOp.id].out = <<ErrorOf(RpcError)>>

\* C9: when unsubscribe(address) succeeds, the address mapping, the delivery-channel
\* entry and the sync-status entry of its subscriber identifier are all gone.
C9_UnsubscribeRemovesAll ==
    [][(lastOp'.op = "unsubscribe.then" /\ lastOp'.result = "resolved") =>
          /\ subscriptions'[lastOp'.id].isStopped
          /\ lastOp'.val \notin DOMAIN addressSubscriptions'
          /\ lastOp'.id \notin DOMAIN subscriptions'
          /\ lastOp'.id \notin DOMAIN syncedSubscriptions'
      ]_vars

\* C10: when the cancel call of unsubscribe(address) fails (the node rejects it,
\* or the Client refuses to send it), unsubscribe rejects with the error of that
\* call and the address mapping, the delivery channels and the sync statuses are as
\* they were, so the address can be unsubscribed again.
C10_FailedUnsubscribeKeeps ==
    [][\A i \in DOMAIN unsubs :
          (lastOp'.op = "unsubscribe.catch" /\ unsubs[i].state = "pending"
               /\ unsubs' = RemoveAt(unsubs, i) /\ unsubs[i].address = lastOp'.val)
              => /\ lastOp'.result = "rejected"
                 /\ lastOp'.error = IF unsubs[i].sent THEN RpcError ELSE NotReadyError
                 /\ UNCHANGED tables
      ]_vars

C10_Witness ==
    /\ lastOp.op = "unsubscribe.catch"
    /\ lastOp.val \in DOMAIN addressSubscriptions
    /\ addressSubscriptions[lastOp.val] = lastOp.id
    /\ Outcome(subscriptions[lastOp.id]) = "active"
    /\ lastOp.error = RpcError
    /\ nUnsubs < MaxUnsubs

\* the addresses of the cancel calls a step added to the calls in flight
IssuedBy(before, after) == {after[j].address : j \in (Len(before) + 1)..Len(after)}

\* C11: unsubscribeAll() on a connection that has a transport sends one cancel per
\* tracked address; its promise is resolved only when every one of them has
\* resolved; when one fails its promise is rejected with the first failure, and it
\* is rejected only once every one of its unsubscriptions has settled.
C11_UnsubscribeAllWaitsForAll ==
    [][/\ (lastOp'.op = "unsubscribeAll" /\ HasSocket) =>
              /\ IssuedBy(unsubs, unsubs') = DOMAIN addressSubscriptions
              /\ Len(unsubs') = Len(unsubs) + Cardinality(DOMAIN addressSubscriptions)
       /\ \A g \in DOMAIN unsubAlls' :
              LET p == unsubAlls'[g]
              IN  /\ p.promise = "resolved" => p.fulfilled = p.total
                  /\ p.promise = "rejected" => p.settled = p.total
                  /\ p.promise = "rejected" => (p.error = p.first /\ p.error # <<>>)
                  /\ (g \in DOMAIN unsubAlls /\ unsubAlls[g].promise = "rejected")
                         => p.error = unsubAlls[g].error
      ]_vars

\* what isSynced(address) yields: <<>> for undefined, else <<the current value>>
SyncStatus(address) ==
    IF IsSynced(address) = <<>> THEN <<>> ELSE <<IsSynced(address)[1].value>>

\* C12: isSynced(address) yields undefined before any subscribe and once the node
\* has acknowledged the cancel of an unsubscribe of the address; after
\* subscribe(address) it exposes a
\* status that is false, that each notification for the address's subscriber
\* identifier sets to the notification's isHead (but a notification with atoms
\* for a delivery channel its holder has closed), and that no other step changes.
C12_IsSyncedFollowsIsHead ==
    [][\A a \in Addresses :
          /\ lastOp.op = "new" => SyncStatus(a) = <<>>
          /\ CASE lastOp'.op = "subscribe" /\ lastOp'.val = a ->
                       SyncStatus(a)' = <<FALSE>>
                [] lastOp'.op = "unsubscribe.then" /\ lastOp'.val = a ->
                       SyncStatus(a)' = <<>>
                [] lastOp'.op = "Atoms.subscribeUpdate" /\ a \in DOMAIN addressSubscriptions
                       /\ addressSubscriptions[a] = lastOp'.id
                       /\ ~(subscriptions[lastOp'.id].closed /\ lastOp'.atoms # <<>>) ->
                       SyncStatus(a)' = <<lastOp'.isHead>>
                [] OTHER -> SyncStatus(a)' = SyncStatus(a)
      ]_vars

C12_Witness ==
    /\ lastOp.op = "Atoms.subscribeUpdate"
    /\ lastOp.isHead
    /\ "a1" \in DOMAIN addressSubscriptions
    /\ addressSubscriptions["a1"] = lastOp.id
    /\ SyncStatus("a1") = <<TRUE>>
    /\ nNotifs = 2

\* C13: the promise of an open request settles at most once, in one of three ways:
\* resolved by the ready signal of its transport, the connection then Open;
\* rejected with the timeout error by the 5 s timer, the connection not ready and
\* Closed; rejected with the transport's error by its error event, the connection
\* then Closed.  The connection becomes Open only by the ready signal of the
\* transport it holds, whose open request is still pending, never after that
\* request has failed.
C13_OpenEndsOneOfThreeWays ==
    [][/\ \A g \in DOMAIN opens :
              LET o == opens[g]
                  q == opens'[g]
              IN  /\ o.promise # "pending" => (q.promise = o.promise /\ q.error = o.error)
                  /\ (o.promise = "pending" /\ q.promise = "resolved") =>
                         /\ lastOp'.op = "socket.open"
                         /\ ConnState' = "Open"
                  /\ (o.promise = "pending" /\ q.promise = "rejected") =>
                         \/ /\ q.error = OpenTimeoutError
                            /\ lastOp'.op = "openTimeout"
                            /\ ~ready
                            /\ ConnState' = "Closed"
                         \/ /\ q.error = TransportError
                            /\ lastOp'.op = "socket.error"
                            /\ ConnState' = "Closed"
       /\ (ConnState # "Open" /\ ConnState' = "Open") =>
              /\ lastOp'.op = "socket.open"
              /\ opens[Len(opens)].promise = "pending"
              /\ opens'[Len(opens)].promise = "resolved"
      ]_vars

\* the submission has left Created/Submitting: its stream has emitted Submitted or
\* has reached a terminal state
LeftSubmitting(s) == s.isStopped \/ NextOf("SUBMITTED") \in Range(s.out)

\* C14: the timeout timer of a submission fires (closing the transport and erroring
\* the stream with the timeout failure) only while the submission is still in
\* Created/Submitting; once its stream has emitted Submitted or has terminated
\* (other than by its holder closing it), the timer never fires.
C14_NoTimeoutAfterSubmitted ==
    [][\A id \in DOMAIN timeouts :
          (timeouts[id] = "armed" /\ timeouts'[id] = "fired"
               /\ ~atomUpdateSubjects[id].closed)
              => ~LeftSubmitting(atomUpdateSubjects[id])
      ]_vars

\* C15: when the timer of an open request that has succeeded fires, nothing
\* happens: no transport is closed, no 'closed' event is emitted and the request
\* stays resolved.
C15_OpenTimerInertAfterSuccess ==
    [][\A g \in DOMAIN opens :
          (opens[g].promise = "resolved" /\ opens[g].timer = "armed"
               /\ opens'[g].timer = "fired")
              => /\ sockState' = sockState
                 /\ emitted' = <<>>
                 /\ opens'[g].promise = "resolved"
      ]_vars

\* the place of a state value in the order Created, Submitting, Submitted, Stored
StateRank(v) ==
    CASE v = "CREATED" -> 1 [] v = "SUBMITTING" -> 2 [] v = "SUBMITTED" -> 3
      [] v = "STORED" -> 4 [] OTHER -> 0
\* the rank of what the observer received at position i (0: not a state value)
RankAt(out, i) == IF out[i].k = "next" THEN StateRank(out[i].v) ELSE 0
\* the observer received a failure the node reported
IsNodeFailure(x) == x.k = "error" /\ Len(x.e) = 3 /\ x.e[1] \in FailureValues

\* C16: what the observer of a submission stream receives never steps back in the
\* order Created, Submitting, Submitted, Stored, and Stored or a failure the
\* node reported is received only after Submitted.
C16_StatesInOrder ==
    \A id \in DOMAIN atomUpdateSubjects :
        LET out == atomUpdateSubjects[id].out
        IN  /\ \A i, j \in DOMAIN out :
                   (i < j /\ RankAt(out, j) > 0) => RankAt(out, i) <= RankAt(out, j)
            /\ \A j \in DOMAIN out :
                   (RankAt(out, j) = 4 \/ IsNodeFailure(out[j]))
                       => \E i \in 1..(j - 1) : RankAt(out, i) = 3

\* the identifiers the connection has handed out so far
Allocated == DOMAIN subscriptions \cup DOMAIN atomUpdateSubjects

\* C17: the counter never decreases; subscribe and submitAtom each advance it by
\* one and take the new value as identifier, which no stream, live or terminated,
\* was ever registered under; no identifier names both a delivery channel and a
\* submission stream.
C17_SubscriberIdsUnique ==
    [][/\ lastSubscriberId' >= lastSubscriberId
       /\ lastOp'.op \in {"subscribe", "submitAtom"} =>
              /\ lastSubscriberId' = lastSubscriberId + 1
              /\ lastOp'.id = IdStr(lastSubscriberId')
              /\ lastOp'.id \notin Allocated
              /\ Allocated' = Allocated \cup {lastOp'.id}
       /\ lastOp'.op \notin {"subscribe", "submitAtom"} =>
              /\ lastSubscriberId' = lastSubscriberId
              /\ Allocated' = Allocated
       /\ DOMAIN subscriptions' \cap DOMAIN atomUpdateSubjects' = {}
       /\ Allocated' = {IdStr(n) : n \in 2..lastSubscriberId'}
      ]_vars

C17_Witness ==
    /\ lastOp.op = "subscribe"
    /\ lastOp.id = "3"
    /\ "2" \in DOMAIN atomUpdateSubjects
    /\ atomUpdateSubjects["2"].isStopped
    /\ "3" \in DOMAIN subscriptions

\* C18: a probe call is issued only by the interval's callback and only while the
\* connection is Open (the transport has signalled ready and has not emitted
\* close); the failure of a probe changes nothing of the connection: its
\* state, its transport, its tables and streams, its calls and timers.
C18_ProbeOnlyWhileOpen ==
    [][/\ Len(pings') > Len(pings) =>
              /\ lastOp'.op = "ping"
              /\ ConnState = "Open"
              /\ sockState \in {"open", "closing"}
              /\ opens[Len(opens)].promise = "resolved"
       /\ (lastOp'.op = "pingResult" /\ lastOp'.val = "failed") =>
              /\ ConnState' = ConnState
              /\ emitted' = <<>>
              /\ UNCHANGED <<lastSubscriberId, tables, transport, calls, timeouts, unsubs,
                             unsubAlls, hist>>
      ]_vars

C18_Witness ==
    /\ lastOp.op = "pingResult"
    /\ lastOp.val = "failed"
    /\ ConnState = "Open"
    /\ \E id \in DOMAIN subscriptions : Outcome(subscriptions[id]) = "active"
    /\ \E id \in DOMAIN atomUpdateSubjects : Outcome(atomUpdateSubjects[id]) = "active"

\* the identifiers subscribe allocated for an address
AllocatedFor(address) ==
    {id \in DOMAIN subscriptions \cap DOMAIN calls : calls[id].address = address}

\* C19: when unsubscribe(address) succeeds, every delivery channel that subscribe
\* returned for that address is terminated: none of the identifiers allocated for
\* the address is left with a live channel.
C19_UnsubscribeReachesEveryChannel ==
    [][(lastOp'.op = "unsubscribe.then" /\ lastOp'.result = "resolved") =>
          \A id \in AllocatedFor(lastOp'.val) : subscriptions'[id].isStopped
      ]_vars

\* a table is the same but for the entry of one identifier
SameButFor(table, tableAfter, id) ==
    /\ DOMAIN tableAfter = DOMAIN table
    /\ \A x \in DOMAIN table \ {id} : tableAfter[x] = table[x]

\* C20: handling an atom notification for subscriber X leaves every other delivery
\* channel and every other sync status as it was, and touches no submission
\* stream; handling a submission-state notification for X leaves every other
\* submission stream as it was and touches no subscription.
C20_NotificationTouchesOnlyItsSubscriber ==
    [][/\ lastOp'.op = "Atoms.subscribeUpdate" =>
              /\ SameButFor(subscriptions, subscriptions', lastOp'.id)
              /\ SameButFor(syncedSubscriptions, syncedSubscriptions', lastOp'.id)
              /\ UNCHANGED <<atomUpdateSubjects, addressSubscriptions>>
       /\ lastOp'.op = "AtomSubmissionState.onNext" =>
              /\ SameButFor(atomUpdateSubjects, atomUpdateSubjects', lastOp'.id)
              /\ UNCHANGED <<subscriptions, syncedSubscriptions, addressSubscriptions>>
      ]_vars

C20_Witness ==
    /\ lastOp.op = "Atoms.subscribeUpdate"
    /\ lastOp.id = "3"
    /\ {"2", "3"} \subseteq DOMAIN subscriptions
    /\ Outcome(subscriptions["2"]) = "active"
    /\ subscriptions["2"].out = <<>>
    /\ subscriptions["3"].out # <<>>

=============================================================================
